---- MODULE Spec2Model ----
(***************************************************************************)
(* A model of PDFToJSONConverter (src/main.py): the text normalizer, the   *)
(* line classifier, native extraction, the OCR batch runner, the           *)
(* extraction strategy selector and the converter facade.                  *)
(*                                                                         *)
(* A text is a sequence of one-character strings.  The two bullet glyphs   *)
(* of the filter patterns are written "U+2022" and "U+25CF".  Python's     *)
(* None, a list and a raised exception are told apart by the kind field of *)
(* an outcome record.                                                      *)
(*                                                                         *)
(* Spec is one conversion.  BatchSpec is the OCR attempt of mode 'always'  *)
(* with the batch size of its loop as an input; ClassifierSpec puts one    *)
(* raw line through clean_text and should_filter_line; AssemblerSpec puts  *)
(* one page text through the line loop.                                    *)
(***************************************************************************)
EXTENDS Integers, Sequences, FiniteSets, TLC

\* ------------------------------------------------------------------ bounds

\* Text containers and other layout elements the native extractor yields.
MaxElements == 3
\* Page layouts the native extractor yields.
MaxNativePages == 2
\* Pages of the document the OCR attempt opens.
MaxOcrPages == 3
\* Batch sizes the batch loop is run with when the size is an input.
MaxBatchSize == 5
\* Lines of a page text given to the line loop on its own.
MaxLines == 4

\* ------------------------------------------------------- program constants

min_paragraph_length == 20
SufficiencyThreshold == 100
\* The value line 95 gives the batch size.
FixedBatchSize == 5
MaxImageSide == 3000

OcrModes == {"auto", "always", "never"}

\* ------------------------------------------------------------- characters

LowerLetters ==
    {"a","b","c","d","e","f","g","h","i","j","k","l","m",
     "n","o","p","q","r","s","t","u","v","w","x","y","z"}

UpperLetters ==
    {"A","B","C","D","E","F","G","H","I","J","K","L","M",
     "N","O","P","Q","R","S","T","U","V","W","X","Y","Z"}

Digits == {"0","1","2","3","4","5","6","7","8","9"}

\* \s of the re module, within the characters the model uses.
Whitespace == {" ", "\n", "\t"}

\* \w of the re module, within the characters the model uses.
WordChars == LowerLetters \cup UpperLetters \cup Digits \cup {"_"}

LowerOf ==
    [c \in UpperLetters |->
        CASE c = "A" -> "a" [] c = "B" -> "b" [] c = "C" -> "c" [] c = "D" -> "d"
          [] c = "E" -> "e" [] c = "F" -> "f" [] c = "G" -> "g" [] c = "H" -> "h"
          [] c = "I" -> "i" [] c = "J" -> "j" [] c = "K" -> "k" [] c = "L" -> "l"
          [] c = "M" -> "m" [] c = "N" -> "n" [] c = "O" -> "o" [] c = "P" -> "p"
          [] c = "Q" -> "q" [] c = "R" -> "r" [] c = "S" -> "s" [] c = "T" -> "t"
          [] c = "U" -> "u" [] c = "V" -> "v" [] c = "W" -> "w" [] c = "X" -> "x"
          [] c = "Y" -> "y" [] c = "Z" -> "z"]

\* Matching without re.IGNORECASE: every character stands for itself.
FoldNothing(c) == c

\* re.IGNORECASE: a character and a pattern character match when their
\* lower-case forms are equal.
Fold(c) == IF c \in UpperLetters THEN LowerOf[c] ELSE c

FoldSet(S) == {Fold(c) : c \in S}

\* ---------------------------------------------------------- clean_text

\* re.sub(r'\s+', ' ', text): every maximal run of whitespace becomes one
\* space.
RECURSIVE CollapseWhitespace(_)
CollapseWhitespace(text) ==
    IF text = <<>> THEN <<>>
    ELSE IF Head(text) \in Whitespace
         THEN IF Len(text) > 1 /\ text[2] \in Whitespace
              THEN CollapseWhitespace(Tail(text))
              ELSE <<" ">> \o CollapseWhitespace(Tail(text))
         ELSE <<Head(text)>> \o CollapseWhitespace(Tail(text))

\* str.strip(): leading and trailing whitespace removed.
RECURSIVE StripLeft(_)
StripLeft(text) ==
    IF text # <<>> /\ Head(text) \in Whitespace
    THEN StripLeft(Tail(text))
    ELSE text

RECURSIVE StripRight(_)
StripRight(text) ==
    IF text # <<>> /\ text[Len(text)] \in Whitespace
    THEN StripRight(SubSeq(text, 1, Len(text) - 1))
    ELSE text

Strip(text) == StripRight(StripLeft(text))

clean_text(text) == Strip(CollapseWhitespace(text))

\* ------------------------------------------------------ regular expressions

\* A pattern is a tree; Step(r, s, P) is the set of positions of s at which
\* a match of r can end when it starts at a position of P.  Position p
\* stands before character s[p]; Len(s) + 1 is the end of the text.
Lit(cs) == [t |-> "lit", cs |-> FoldSet(cs), rs |-> <<>>, lo |-> 0, hi |-> 0]
Dot == [t |-> "dot", cs |-> {}, rs |-> <<>>, lo |-> 0, hi |-> 0]
Bol == [t |-> "bol", cs |-> {}, rs |-> <<>>, lo |-> 0, hi |-> 0]
Eol == [t |-> "eol", cs |-> {}, rs |-> <<>>, lo |-> 0, hi |-> 0]
Cat(rs) == [t |-> "cat", cs |-> {}, rs |-> rs, lo |-> 0, hi |-> 0]
\* r{lo,hi}; hi = -1 is no upper limit.
Rep(r, lo, hi) == [t |-> "rep", cs |-> {}, rs |-> <<r>>, lo |-> lo, hi |-> hi]
Star(r) == Rep(r, 0, -1)
Plus(r) == Rep(r, 1, -1)
Opt(r) == Rep(r, 0, 1)
\* A literal word, one character after the other.
Word(w) == Cat([i \in 1..Len(w) |-> Lit({w[i]})])

RECURSIVE Step(_, _, _)
RECURSIVE StepCat(_, _, _)
RECURSIVE StepTimes(_, _, _, _)
RECURSIVE StepClosure(_, _, _, _)
RECURSIVE StepUpTo(_, _, _, _, _)

Step(r, s, P) ==
    CASE r.t = "lit" ->
            {p + 1 : p \in {q \in P : q <= Len(s) /\ Fold(s[q]) \in r.cs}}
      [] r.t = "dot" ->
            {p + 1 : p \in {q \in P : q <= Len(s) /\ s[q] # "\n"}}
      [] r.t = "bol" -> P \cap {1}
      [] r.t = "eol" ->
            {p \in P : \/ p = Len(s) + 1
                       \/ p = Len(s) /\ s[p] = "\n"}
      [] r.t = "cat" -> StepCat(r.rs, s, P)
      [] r.t = "rep" ->
            LET atLeast == StepTimes(r.rs[1], s, P, r.lo)
            IN  IF r.hi < 0
                THEN StepClosure(r.rs[1], s, atLeast, atLeast)
                ELSE StepUpTo(r.rs[1], s, atLeast, atLeast, r.hi - r.lo)

StepCat(rs, s, P) ==
    IF rs = <<>> \/ P = {} THEN P
    ELSE StepCat(Tail(rs), s, Step(Head(rs), s, P))

\* Exactly n repetitions of r.
StepTimes(r, s, P, n) ==
    IF n = 0 \/ P = {} THEN P
    ELSE StepTimes(r, s, Step(r, s, P), n - 1)

\* Any number of further repetitions of r: done holds the positions found,
\* front those not yet extended.
StepClosure(r, s, done, front) ==
    IF front = {} THEN done
    ELSE LET new == Step(r, s, front) \ done
         IN  StepClosure(r, s, done \cup new, new)

\* At most n further repetitions of r.
StepUpTo(r, s, done, front, n) ==
    IF n = 0 \/ front = {} THEN done
    ELSE LET new == Step(r, s, front) \ done
         IN  StepUpTo(r, s, done \cup new, new, n - 1)

\* pattern.match(text): a match that starts at the beginning of the text.
Matches(r, s) == Step(r, s, {1}) # {}

WS == Lit(Whitespace)
Digit == Lit(Digits)
WChar == Lit(WordChars)

\* self.filter_patterns, in the order of the source.
filter_patterns ==
    << \* ^\s*<bullet U+2022>.*$
       Cat(<<Bol, Star(WS), Lit({"U+2022"}), Star(Dot), Eol>>),
       \* ^\s*<bullet U+25CF>.*$
       Cat(<<Bol, Star(WS), Lit({"U+25CF"}), Star(Dot), Eol>>),
       \* ^\s*\[.*\]\s*$
       Cat(<<Bol, Star(WS), Lit({"["}), Star(Dot), Lit({"]"}), Star(WS), Eol>>),
       \* ^\s*<.*>\s*$
       Cat(<<Bol, Star(WS), Lit({"<"}), Star(Dot), Lit({">"}), Star(WS), Eol>>),
       \* ^\s*Page\s*\d+\s*$
       Cat(<<Bol, Star(WS), Word(<<"P","a","g","e">>), Star(WS), Plus(Digit),
             Star(WS), Eol>>),
       \* ^\s*\d+\s*$
       Cat(<<Bol, Star(WS), Plus(Digit), Star(WS), Eol>>),
       \* ^Figure\s*\d+[\.\:]?.*$
       Cat(<<Bol, Word(<<"F","i","g","u","r","e">>), Star(WS), Plus(Digit),
             Opt(Lit({".", ":"})), Star(Dot), Eol>>),
       \* ^\s*Table\s*\d+[\.\:]?.*$
       Cat(<<Bol, Star(WS), Word(<<"T","a","b","l","e">>), Star(WS), Plus(Digit),
             Opt(Lit({".", ":"})), Star(Dot), Eol>>),
       \* ^[.\s]+$
       Cat(<<Bol, Plus(Lit({"."} \cup Whitespace)), Eol>>),
       \* ^\s*\d+(\.\d+)*\s+\w+(\s+\w+){0,4}\.{3,}.*\d+\s*$
       Cat(<<Bol, Star(WS), Plus(Digit),
             Star(Cat(<<Lit({"."}), Plus(Digit)>>)),
             Plus(WS), Plus(WChar),
             Rep(Cat(<<Plus(WS), Plus(WChar)>>), 0, 4),
             Rep(Lit({"."}), 3, -1), Star(Dot), Plus(Digit), Star(WS), Eol>>) >>

\* any(pattern.match(text) for pattern in self.compiled_filter_patterns)
should_filter_line(text) ==
    \E i \in 1..Len(filter_patterns) : Matches(filter_patterns[i], text)

\* ------------------------------------------------------ Python built-ins

\* text.split('\n'): the pieces between the line breaks, in order; a text
\* that ends in a line break has an empty last piece.
RECURSIVE SplitFrom(_, _)
SplitFrom(text, piece) ==
    IF text = <<>> THEN <<piece>>
    ELSE IF Head(text) = "\n"
         THEN <<piece>> \o SplitFrom(Tail(text), <<>>)
         ELSE SplitFrom(Tail(text), Append(piece, Head(text)))

SplitLines(text) == SplitFrom(text, <<>>)

\* ' '.join(parts)
RECURSIVE JoinSpace(_)
JoinSpace(parts) ==
    IF parts = <<>> THEN <<>>
    ELSE IF Len(parts) = 1 THEN parts[1]
         ELSE parts[1] \o <<" ">> \o JoinSpace(Tail(parts))

\* ''.join(parts)
RECURSIVE JoinEmpty(_)
JoinEmpty(parts) ==
    IF parts = <<>> THEN <<>> ELSE Head(parts) \o JoinEmpty(Tail(parts))

\* What a function call yields: a list, None, or a raised exception.
ListOf(ps) == [kind |-> "list", val |-> ps]
NoneValue == [kind |-> "none", val |-> <<>>]
Raised == [kind |-> "raised", val |-> <<>>]
Unset == [kind |-> "unset", val |-> <<>>]

\* The output file before anything is written to it.
NoFile == [written |-> FALSE, content |-> <<>>]

\* The test "is not None" in place of the truth value.
IsList(o) == o.kind = "list"

\* Python's truth value of a call result: None and the empty list are false.
Truthy(o) == o.kind = "list" /\ o.val # <<>>

\* ------------------------------------------------------------ the documents

\* Raw texts of the text containers the layout extractor can yield.
\* Cleaned, 50 characters of content:
Block50 ==
    <<"T","h","e"," ","d","e","v","i","c","e"," ","o","p","e","r","a","t","e","s",
      " ","a","t"," ","1","2","V"," "," ","a","n","d","\n","r","u","n","s"," ",
      "f","o","r"," ","t","e","n"," ","h","o","u","r","s",".","\n">>
\* Cleaned, 15 characters of content, below min_paragraph_length:
Block15 == <<"G","e","t","t","i","n","g"," ","\t","s","t","a","r","t","e","d","\n">>
\* A page-number block:
BlockNoise == <<"P","a","g","e"," ","3","\n">>
\* A block of whitespace only:
BlockBlank == <<" ","\n","\n">>
\* A block of two lines, a table caption and a sentence:
BlockMixed ==
    <<"T","a","b","l","e"," ","2",":"," ","S","u","m","m","a","r","y","\n","T","h",
      "e"," ","d","e","v","i","c","e"," ","o","p","e","r","a","t","e","s"," ","a",
      "t"," ","1","2","V",".","\n">>

ContainerTexts == {Block50, Block15, BlockNoise, BlockBlank, BlockMixed}

\* The layout elements of a page: text containers, and elements of another
\* kind (a figure, a line, a rectangle).
LayoutElements ==
    {[container |-> TRUE, text |-> t] : t \in ContainerTexts}
        \cup {[container |-> FALSE, text |-> <<>>]}

\* Texts the OCR engine can return for a page.
\* Two content lines, an empty line, a noise line, a short content line:
OcrPageA ==
    <<"T","h","e"," ","u","n","i","t"," ","m","u","s","t"," ","b","e"," ","k","e",
      "p","t","\n","d","r","y"," ","a","t"," ","a","l","l"," ","t","i","m","e","s",
      ".","\n","\n","P","a","g","e"," ","3","\n","S","e","e"," ","n","o","t","e",
      "\n">>
\* A noise line, then one content line that ends the text:
OcrPageB ==
    <<"T","a","b","l","e"," ","2",":"," ","S","u","m","m","a","r","y","\n","C","h",
      "e","c","k"," ","t","h","e"," ","s","e","a","l","s"," ","e","v","e","r","y",
      " ","m","o","n","t","h",".">>

OcrTexts == {OcrPageA, OcrPageB}

\* Raw lines given to the classifier on its own: a lead, a head and a tail,
\* and the lines the specification names.
LineLeads == {<<>>, <<" ">>}

LineHeads ==
    {<<"P","a","g","e">>, <<"P","A","G","E">>, <<"p","a","g","e","s">>,
     <<"T","a","b","l","e">>, <<"t","a","b","l","e">>,
     <<"F","i","g","u","r","e">>, <<"U+2022">>, <<"U+25CF">>, <<"[">>, <<"<">>,
     <<"1","2">>, <<"1",".","2">>, <<".",".",".">>, <<"T","h","e">>, <<>>}

LineTails ==
    {<<>>, <<" ","3">>, <<"3">>, <<" "," ","3"," ","\n">>,
     <<" ","2",":"," ","S","u","m","m","a","r","y">>,
     <<" ","x","]">>, <<" ","x",">"," ">>, <<" ","t","h","r","e","e">>,
     <<" ","I","n","t","r","o",".",".",".","."," ","7">>,
     <<" ","I","n","t","r","o"," ",".",".","."," ","7">>,
     <<" ",".","\t",".">>, <<"3"," ","o","f"," ","9">>}

LinePage3 == <<"P","a","g","e"," ","3">>
LineBullet == <<"U+2022"," ","I","t","e","m"," ","o","n","e">>
LineTable2 == <<"T","a","b","l","e"," ","2",":"," ","S","u","m","m","a","r","y">>
LineBracketed == <<"[","b","r","a","c","k","e","t","e","d","]">>
LineDevice ==
    <<"T","h","e"," ","d","e","v","i","c","e"," ","o","p","e","r","a","t","e","s",
      " ","a","t"," ","1","2","V",".">>

RawLines ==
    {lead \o head \o tail :
        lead \in LineLeads, head \in LineHeads, tail \in LineTails}
        \cup {LinePage3, LineBullet, LineTable2, LineBracketed, LineDevice}

\* Lines of the page texts given to the line loop on its own: content of
\* 28, 17 and 8 characters, a noise line, an empty line.
LineSeals ==
    <<"C","h","e","c","k"," ","t","h","e"," ","s","e","a","l","s"," ","e","v",
      "e","r","y"," ","m","o","n","t","h",".">>
LineDry ==
    <<"d","r","y"," ","a","t"," ","a","l","l"," "," ","t","i","m","e","s",".",
      " ">>
LineNote == <<"S","e","e"," ","n","o","t","e">>

LineKinds == {LineSeals, LineDry, LineNote, LinePage3, <<>>}

\* The text whose lines are the given ones: '\n'.join(lines).
RECURSIVE JoinNewline(_)
JoinNewline(lines) ==
    IF lines = <<>> THEN <<>>
    ELSE IF Len(lines) = 1 THEN lines[1]
    ELSE lines[1] \o <<"\n">> \o JoinNewline(Tail(lines))

LineTexts ==
    {JoinNewline(lines) :
        lines \in UNION {[1..n -> LineKinds] : n \in 1..MaxLines}}

\* Pixel sizes of a rendered page: within the limit, and beyond it.
ImageSizes == {<<1240, 1754>>, <<2480, 3508>>}

NoImage == <<0, 0>>

\* ------------------------------------------------------------------- state

VARIABLES
    ocr_mode,        \* self.ocr_mode
    pc,              \* the statement the conversion is at
    \* extract_text_from_pdf
    paragraphs,      \* its local list
    n_native_pages,  \* page layouts the extractor has yielded so far
    n_elems,         \* layout elements the extractor has yielded so far
    native_log,      \* those elements, in the order they were yielded
    native_status,   \* "notrun", "running", "ok" or "raised"
    \* extract_text_with_ocr
    ocr_caller,      \* the call site: "always", "insufficient" or "handler"
    doc,             \* "none", "open" or "closed"
    doc_page_count,  \* the number of pages of the document last opened
    total_pages,
    batch_size,
    start_page,
    page_num,
    ocr_paragraphs,  \* its local list
    img,             \* the PIL image held, NoImage when none
    pix,             \* TRUE while a pixmap is held
    ocr_ret,         \* the value of the return statement reached
    ocr_outcome,     \* what the call yields to its caller
    page_log,        \* per page of this attempt: its number, its text or skip
    ocr_log,         \* per finished attempt: its call site and outcome
    \* convert_pdf_to_json
    extract_result,  \* what extract_text_from_pdf yields
    paragraph_dict,  \* the (key, value) pairs in insertion order
    output_file,     \* whether written, and the pairs written
    conv_outcome,    \* "running", "dict", "none" or "raised"
    \* one line put through clean_text and should_filter_line on its own
    cls_pc,          \* "idle", "raw", "cleaned" or "classified"
    cls_text,        \* the raw line
    cls_cleaned,     \* clean_text of it
    cls_filtered     \* what should_filter_line returned for that

nativeVars == <<paragraphs, n_native_pages, n_elems, native_log, native_status>>
pageVars == <<total_pages, batch_size, start_page, page_num, ocr_paragraphs, img, pix,
              page_log>>
ocrVars == <<ocr_caller, doc, doc_page_count, ocr_ret, ocr_outcome, ocr_log>>
outVars == <<extract_result, paragraph_dict, output_file, conv_outcome>>
classVars == <<cls_pc, cls_text, cls_cleaned, cls_filtered>>
vars == <<ocr_mode, pc, nativeVars, pageVars, ocrVars, outVars, classVars>>

Init ==
    /\ ocr_mode \in OcrModes
    /\ pc = "start"
    /\ paragraphs = <<>>
    /\ n_native_pages = 0
    /\ n_elems = 0
    /\ native_log = <<>>
    /\ native_status = "notrun"
    /\ ocr_caller = "nobody"
    /\ doc = "none"
    /\ doc_page_count = 0
    /\ total_pages = 0
    /\ batch_size = 0
    /\ start_page = 0
    /\ page_num = 0
    /\ ocr_paragraphs = <<>>
    /\ img = NoImage
    /\ pix = FALSE
    /\ ocr_ret = Unset
    /\ ocr_outcome = Unset
    /\ page_log = <<>>
    /\ ocr_log = <<>>
    /\ extract_result = Unset
    /\ paragraph_dict = <<>>
    /\ output_file = NoFile
    /\ conv_outcome = "running"
    /\ cls_pc = "idle"
    /\ cls_text = <<>>
    /\ cls_cleaned = <<>>
    /\ cls_filtered = FALSE

\* ------------------------------------------------- extract_text_from_pdf

\* The call of extract_text_with_ocr from one of its three call sites.
CallOcr(caller) ==
    /\ pc' = "ocr_open"
    /\ ocr_caller' = caller

\* convert_pdf_to_json calls extract_text_from_pdf.
ConvertCall ==
    /\ pc = "start"
    /\ pc' = "select"
    /\ UNCHANGED <<ocr_mode, classVars, nativeVars, pageVars, ocrVars,
                   outVars>>

\* A selector that starts native extraction in every mode.
SelectStrategyNativeFirst ==
    /\ pc = "select"
    /\ pc' = "native"
    /\ paragraphs' = <<>>
    /\ native_status' = "running"
    /\ UNCHANGED <<ocr_mode, classVars, n_native_pages, n_elems, native_log,
                   pageVars, ocrVars, outVars>>

\* Mode 'always' goes to OCR at once; the other modes start native
\* extraction with an empty list.
SelectStrategy ==
    /\ pc = "select"
    /\ IF ocr_mode = "always"
       THEN /\ CallOcr("always")
            /\ UNCHANGED nativeVars
       ELSE /\ pc' = "native"
            /\ paragraphs' = <<>>
            /\ native_status' = "running"
            /\ UNCHANGED <<ocr_caller, n_native_pages, n_elems, native_log>>
    /\ UNCHANGED <<ocr_mode, classVars, pageVars, doc, doc_page_count, ocr_ret,
                   ocr_outcome, ocr_log, outVars>>

\* extract_pages yields the next page layout.
NativeNextPage ==
    /\ pc = "native"
    /\ n_native_pages < MaxNativePages
    /\ n_native_pages' = n_native_pages + 1
    /\ UNCHANGED <<ocr_mode, classVars, pc, paragraphs, n_elems, native_log,
                   native_status, pageVars, ocrVars, outVars>>

\* The body of the element loop: what one layout element adds to the list.
AddElement(ps, element) ==
    IF element.container
    THEN LET cleaned_text == clean_text(element.text)
         IN  IF cleaned_text # <<>> /\ ~should_filter_line(cleaned_text)
             THEN Append(ps, cleaned_text)
             ELSE ps
    ELSE ps

\* The page layout yields its next element.
NativeElement ==
    /\ pc = "native"
    /\ n_native_pages >= 1
    /\ n_elems < MaxElements
    /\ \E element \in LayoutElements :
          /\ paragraphs' = AddElement(paragraphs, element)
          /\ native_log' = Append(native_log, element)
    /\ n_elems' = n_elems + 1
    /\ UNCHANGED <<ocr_mode, classVars, pc, n_native_pages, native_status,
                   pageVars, ocrVars, outVars>>

\* extract_pages (or a layout element) raises: control passes to the except
\* clause of extract_text_from_pdf.
NativeRaise ==
    /\ pc = "native"
    /\ pc' = "handler"
    /\ native_status' = "raised"
    /\ n_native_pages' = 0
    /\ n_elems' = 0
    /\ native_log' = <<>>
    /\ UNCHANGED <<ocr_mode, classVars, paragraphs, pageVars, ocrVars,
                   outVars>>

\* The fallback test with the threshold itself counted as too little.
InsufficientAtMost(ps) ==
    ps = <<>> \/ Len(JoinEmpty(ps)) <= SufficiencyThreshold

\* The test of the fallback made after the page loop.
Insufficient(ps) ==
    ps = <<>> \/ Len(JoinEmpty(ps)) < SufficiencyThreshold

\* extract_pages is exhausted: in mode 'auto' with too little text OCR is
\* called, otherwise the list is returned.
NativeExhausted ==
    /\ pc = "native"
    /\ native_status' = "ok"
    /\ n_native_pages' = 0
    /\ n_elems' = 0
    /\ native_log' = <<>>
    /\ IF ocr_mode = "auto" /\ Insufficient(paragraphs)
       THEN /\ CallOcr("insufficient")
            /\ UNCHANGED extract_result
       ELSE /\ pc' = "extracted"
            /\ extract_result' = ListOf(paragraphs)
            /\ UNCHANGED ocr_caller
    /\ UNCHANGED <<ocr_mode, classVars, paragraphs, pageVars, doc,
                   doc_page_count, ocr_ret, ocr_outcome, ocr_log,
                   paragraph_dict, output_file, conv_outcome>>

\* An except clause that returns what native extraction had collected.
HandlerReturnsCollected ==
    /\ pc = "handler"
    /\ pc' = "extracted"
    /\ extract_result' = ListOf(paragraphs)
    /\ UNCHANGED <<ocr_mode, classVars, nativeVars, pageVars, ocrVars,
                   paragraph_dict, output_file, conv_outcome>>

\* An except clause that falls back to OCR whatever the mode.
HandlerFallsBackInEveryMode ==
    /\ pc = "handler"
    /\ CallOcr("handler")
    /\ UNCHANGED <<ocr_mode, classVars, nativeVars, pageVars, doc,
                   doc_page_count, ocr_ret, ocr_outcome, ocr_log, outVars>>

\* The except clause: OCR unless the mode is 'never', which returns None.
Handler ==
    /\ pc = "handler"
    /\ IF ocr_mode # "never"
       THEN /\ CallOcr("handler")
            /\ UNCHANGED extract_result
       ELSE /\ pc' = "extracted"
            /\ extract_result' = NoneValue
            /\ UNCHANGED ocr_caller
    /\ UNCHANGED <<ocr_mode, classVars, nativeVars, pageVars, doc,
                   doc_page_count, ocr_ret, ocr_outcome, ocr_log,
                   paragraph_dict, output_file, conv_outcome>>

\* ------------------------------------------------- extract_text_with_ocr

Min(a, b) == IF a <= b THEN a ELSE b
Max(a, b) == IF a >= b THEN a ELSE b

\* A flush that takes the accumulated lines whatever their length.
FlushAnyLength(current_paragraph, ps) ==
    IF current_paragraph # <<>>
    THEN Append(ps, JoinSpace(current_paragraph))
    ELSE ps

\* The accumulated lines become a paragraph when long enough.
Flush(current_paragraph, ps) ==
    IF current_paragraph # <<>>
    THEN LET paragraph_text == JoinSpace(current_paragraph)
         IN  IF Len(paragraph_text) >= min_paragraph_length
             THEN Append(ps, paragraph_text)
             ELSE ps
    ELSE ps

\* The loop over the lines of one page: an empty or filtered line flushes
\* the accumulator, any other line is appended to it.
RECURSIVE LineLoop(_, _, _)
LineLoop(lines, current_paragraph, ps) ==
    IF lines = <<>> THEN [cur |-> current_paragraph, ps |-> ps]
    ELSE LET cleaned_line == clean_text(Head(lines))
         IN  IF cleaned_line = <<>> \/ should_filter_line(cleaned_line)
             THEN LineLoop(Tail(lines), <<>>, Flush(current_paragraph, ps))
             ELSE LineLoop(Tail(lines),
                           Append(current_paragraph, cleaned_line), ps)

\* The text of one page added to a list that is emptied for every page.
ProcessPageTextFresh(ps, text) ==
    LET r == LineLoop(SplitLines(text), <<>>, <<>>)
    IN  Flush(r.cur, r.ps)

\* The text of one page: split, the line loop from an empty accumulator,
\* and the last paragraph.
ProcessPageText(ps, text) ==
    LET r == LineLoop(SplitLines(text), <<>>, ps)
    IN  Flush(r.cur, r.ps)

\* The image after the size test: scaled so that the longer side is
\* MaxImageSide when a side exceeds it.
Resized(size) ==
    LET width == size[1]
        height == size[2]
    IN  IF width > MaxImageSide \/ height > MaxImageSide
        THEN <<(width * MaxImageSide) \div Max(width, height),
               (height * MaxImageSide) \div Max(width, height)>>
        ELSE size

PageOk(n, text) == [page |-> n, ok |-> TRUE, text |-> text]
PageSkipped(n) == [page |-> n, ok |-> FALSE, text |-> <<>>]

\* The attempt starts: an empty list, no document; fitz.open succeeds and
\* yields a document of some number of pages.
OcrOpen ==
    /\ pc = "ocr_open"
    /\ ocr_paragraphs' = <<>>
    /\ page_log' = <<>>
    /\ doc' = "open"
    /\ \E n \in 0..MaxOcrPages : doc_page_count' = n
    /\ pc' = "ocr_count"
    /\ UNCHANGED <<ocr_mode, classVars, nativeVars, total_pages, batch_size,
                   start_page, page_num, img, pix, ocr_caller, ocr_ret,
                   ocr_outcome, ocr_log, outVars>>

\* fitz.open raises: the outer except clause returns None, with no document.
OcrOpenRaise ==
    /\ pc = "ocr_open"
    /\ ocr_paragraphs' = <<>>
    /\ page_log' = <<>>
    /\ doc' = "none"
    /\ ocr_ret' = NoneValue
    /\ pc' = "ocr_finally"
    /\ UNCHANGED <<ocr_mode, classVars, nativeVars, total_pages, batch_size,
                   start_page, page_num, img, pix, ocr_caller, doc_page_count,
                   ocr_outcome, ocr_log, outVars>>

\* total_pages = doc.page_count and the assignment of the batch size b;
\* the batch loop starts at page 1.
OcrPageCountWith(b) ==
    /\ pc = "ocr_count"
    /\ total_pages' = doc_page_count
    /\ batch_size' = b
    /\ start_page' = 1
    /\ pc' = "ocr_batch"
    /\ UNCHANGED <<ocr_mode, classVars, nativeVars, page_num, ocr_paragraphs,
                   img, pix, page_log, ocrVars, outVars>>

\* batch_size = 5
OcrPageCount == OcrPageCountWith(FixedBatchSize)

\* The same statements with the batch size as an input of the loop.
OcrPageCountAnySize == \E b \in 1..MaxBatchSize : OcrPageCountWith(b)

\* doc.page_count raises: the outer except clause returns None.
OcrPageCountRaise ==
    /\ pc = "ocr_count"
    /\ ocr_ret' = NoneValue
    /\ pc' = "ocr_finally"
    /\ UNCHANGED <<ocr_mode, classVars, nativeVars, pageVars, ocr_caller, doc,
                   doc_page_count, ocr_outcome, ocr_log, outVars>>

\* for start_page in range(1, total_pages + 1, batch_size): the next batch,
\* or the return of the list after the last one.
OcrBatch ==
    /\ pc = "ocr_batch"
    /\ IF start_page < total_pages + 1
       THEN /\ page_num' = start_page
            /\ pc' = "ocr_page"
            /\ UNCHANGED ocr_ret
       ELSE /\ ocr_ret' = ListOf(ocr_paragraphs)
            /\ pc' = "ocr_finally"
            /\ UNCHANGED page_num
    /\ UNCHANGED <<ocr_mode, classVars, nativeVars, total_pages, batch_size,
                   start_page, ocr_paragraphs, img, pix, page_log, ocr_caller,
                   doc, doc_page_count, ocr_outcome, ocr_log, outVars>>

\* A page loop whose range takes in the page after the batch's last one.
OcrPageInclusive ==
    /\ pc = "ocr_page"
    /\ IF page_num < Min(start_page + batch_size, total_pages) + 1
       THEN /\ img' = NoImage
            /\ pix' = FALSE
            /\ pc' = "page_load"
            /\ UNCHANGED start_page
       ELSE /\ start_page' = start_page + batch_size
            /\ pc' = "ocr_batch"
            /\ UNCHANGED <<img, pix>>
    /\ UNCHANGED <<ocr_mode, classVars, nativeVars, total_pages, batch_size,
                   page_num, ocr_paragraphs, page_log, ocrVars, outVars>>

\* for page_num in range(start_page, min(start_page + batch_size,
\* total_pages + 1)): the next page of the batch, or the next batch.
OcrPage ==
    /\ pc = "ocr_page"
    /\ IF page_num < Min(start_page + batch_size, total_pages + 1)
       THEN /\ img' = NoImage
            /\ pix' = FALSE
            /\ pc' = "page_load"
            /\ UNCHANGED start_page
       ELSE /\ start_page' = start_page + batch_size
            /\ pc' = "ocr_batch"
            /\ UNCHANGED <<img, pix>>
    /\ UNCHANGED <<ocr_mode, classVars, nativeVars, total_pages, batch_size,
                   page_num, ocr_paragraphs, page_log, ocrVars, outVars>>

\* An exception inside the page's try block: the page is skipped and
\* control passes to its finally clause.
SkipPage ==
    /\ page_log' = Append(page_log, PageSkipped(page_num))
    /\ pc' = "page_finally"

\* doc.load_page(page_num - 1)
PageLoad ==
    /\ pc = "page_load"
    /\ pc' = "page_render"
    /\ UNCHANGED <<ocr_mode, classVars, nativeVars, pageVars, ocrVars,
                   outVars>>

\* doc.load_page raises.
PageLoadRaise ==
    /\ pc = "page_load"
    /\ SkipPage
    /\ UNCHANGED <<ocr_mode, classVars, nativeVars, total_pages, batch_size,
                   start_page, page_num, ocr_paragraphs, img, pix, ocrVars,
                   outVars>>

\* page.get_pixmap(dpi=self.dpi)
PageRender ==
    /\ pc = "page_render"
    /\ pix' = TRUE
    /\ pc' = "page_convert"
    /\ UNCHANGED <<ocr_mode, classVars, nativeVars, total_pages, batch_size,
                   start_page, page_num, ocr_paragraphs, img, page_log,
                   ocrVars, outVars>>

\* page.get_pixmap raises.
PageRenderRaise ==
    /\ pc = "page_render"
    /\ SkipPage
    /\ UNCHANGED <<ocr_mode, classVars, nativeVars, total_pages, batch_size,
                   start_page, page_num, ocr_paragraphs, img, pix, ocrVars,
                   outVars>>

\* Image.frombytes: the image is held and the pixmap dereferenced.
PageConvert ==
    /\ pc = "page_convert"
    /\ \E size \in ImageSizes : img' = size
    /\ pix' = FALSE
    /\ pc' = "page_resize"
    /\ UNCHANGED <<ocr_mode, classVars, nativeVars, total_pages, batch_size,
                   start_page, page_num, ocr_paragraphs, page_log, ocrVars,
                   outVars>>

\* Image.frombytes raises: the pixmap is dereferenced and the page skipped.
PageConvertRaise ==
    /\ pc = "page_convert"
    /\ pix' = FALSE
    /\ SkipPage
    /\ UNCHANGED <<ocr_mode, classVars, nativeVars, total_pages, batch_size,
                   start_page, page_num, ocr_paragraphs, img, ocrVars,
                   outVars>>

\* The size test and img.resize.
PageResize ==
    /\ pc = "page_resize"
    /\ img' = Resized(img)
    /\ pc' = "page_text"
    /\ UNCHANGED <<ocr_mode, classVars, nativeVars, total_pages, batch_size,
                   start_page, page_num, ocr_paragraphs, pix, page_log,
                   ocrVars, outVars>>

\* img.resize raises.
PageResizeRaise ==
    /\ pc = "page_resize"
    /\ SkipPage
    /\ UNCHANGED <<ocr_mode, classVars, nativeVars, total_pages, batch_size,
                   start_page, page_num, ocr_paragraphs, img, pix, ocrVars,
                   outVars>>

\* pytesseract.image_to_string returns the page's text, one of the given
\* texts, and the line loop adds its paragraphs to the list.
PageTextFrom(texts) ==
    /\ pc = "page_text"
    /\ \E text \in texts :
          /\ ocr_paragraphs' = ProcessPageText(ocr_paragraphs, text)
          /\ page_log' = Append(page_log, PageOk(page_num, text))
    /\ pc' = "page_finally"
    /\ UNCHANGED <<ocr_mode, classVars, nativeVars, total_pages, batch_size,
                   start_page, page_num, img, pix, ocrVars, outVars>>

PageText == PageTextFrom(OcrTexts)

\* The same statements with the page's text drawn from LineTexts.
PageTextAnyLines == PageTextFrom(LineTexts)

\* pytesseract.image_to_string raises.
PageTextRaise ==
    /\ pc = "page_text"
    /\ SkipPage
    /\ UNCHANGED <<ocr_mode, classVars, nativeVars, total_pages, batch_size,
                   start_page, page_num, ocr_paragraphs, img, pix, ocrVars,
                   outVars>>

\* A finally clause that leaves the page's image as it is.
PageFinallyKeepsImage ==
    /\ pc = "page_finally"
    /\ page_num' = page_num + 1
    /\ pc' = "ocr_page"
    /\ UNCHANGED <<ocr_mode, classVars, nativeVars, total_pages, batch_size,
                   start_page, ocr_paragraphs, img, pix, page_log, ocrVars,
                   outVars>>

\* The page's finally clause closes the image; the loop moves on.
PageFinally ==
    /\ pc = "page_finally"
    /\ img' = NoImage
    /\ page_num' = page_num + 1
    /\ pc' = "ocr_page"
    /\ UNCHANGED <<ocr_mode, classVars, nativeVars, total_pages, batch_size,
                   start_page, ocr_paragraphs, pix, page_log, ocrVars,
                   outVars>>

\* if doc: None is false; a fitz.Document has a length, its page count, and
\* no truth value of its own, so that it is true when it has a page.
DocTruthy(d, n) == d # "none" /\ n # 0

\* The outer finally clause closes the document if there is one; the call
\* then yields the value of the return statement it reached.
OcrFinally ==
    /\ pc = "ocr_finally"
    /\ doc' = IF DocTruthy(doc, doc_page_count) THEN "closed" ELSE doc
    /\ ocr_outcome' = ocr_ret
    /\ ocr_log' = Append(ocr_log, [caller |-> ocr_caller, outcome |-> ocr_ret])
    /\ pc' = "ocr_return"
    /\ UNCHANGED <<ocr_mode, classVars, nativeVars, pageVars, ocr_caller,
                   doc_page_count, ocr_ret, outVars>>

\* doc.close() raises inside the finally clause: the exception replaces the
\* return value and leaves the call.
OcrCloseRaise ==
    /\ pc = "ocr_finally"
    /\ DocTruthy(doc, doc_page_count)
    /\ ocr_outcome' = Raised
    /\ ocr_log' = Append(ocr_log, [caller |-> ocr_caller, outcome |-> Raised])
    /\ pc' = "ocr_return"
    /\ UNCHANGED <<ocr_mode, classVars, nativeVars, pageVars, ocr_caller, doc,
                   doc_page_count, ocr_ret, outVars>>

\* ------------------------------------------- back in extract_text_from_pdf

\* A direct return that turns a failed OCR attempt into an empty list.
ReturnDirectOrEmpty ==
    /\ pc = "ocr_return"
    /\ ocr_caller \in {"always", "handler"}
    /\ IF ocr_outcome.kind = "raised"
       THEN /\ conv_outcome' = "raised"
            /\ pc' = "done"
            /\ UNCHANGED extract_result
       ELSE /\ extract_result' = IF Truthy(ocr_outcome)
                                 THEN ocr_outcome
                                 ELSE ListOf(<<>>)
            /\ pc' = "extracted"
            /\ UNCHANGED conv_outcome
    /\ UNCHANGED <<ocr_mode, classVars, nativeVars, pageVars, ocrVars,
                   paragraph_dict, output_file>>

\* return self.extract_text_with_ocr(pdf_path), in mode 'always' and in the
\* except clause: the call's outcome is the function's outcome.
ReturnDirect ==
    /\ pc = "ocr_return"
    /\ ocr_caller \in {"always", "handler"}
    /\ IF ocr_outcome.kind = "raised"
       THEN /\ conv_outcome' = "raised"
            /\ pc' = "done"
            /\ UNCHANGED extract_result
       ELSE /\ extract_result' = ocr_outcome
            /\ pc' = "extracted"
            /\ UNCHANGED conv_outcome
    /\ UNCHANGED <<ocr_mode, classVars, nativeVars, pageVars, ocrVars,
                   paragraph_dict, output_file>>

\* The call made after insufficient native text, inside the try block: an
\* exception goes to the except clause; a true result is returned; otherwise
\* the native list is returned.
ReturnInsufficient ==
    /\ pc = "ocr_return"
    /\ ocr_caller = "insufficient"
    /\ IF ocr_outcome.kind = "raised"
       THEN /\ pc' = "handler"
            /\ UNCHANGED extract_result
       ELSE /\ extract_result' = IF Truthy(ocr_outcome)
                                 THEN ocr_outcome
                                 ELSE ListOf(paragraphs)
            /\ pc' = "extracted"
    /\ UNCHANGED <<ocr_mode, classVars, nativeVars, pageVars, ocrVars,
                   paragraph_dict, output_file, conv_outcome>>

\* ---------------------------------------------------- convert_pdf_to_json

\* A key numbered by the index itself, from 0.
ParagraphKeyFromZero(i) == "paragraph" \o ToString(i)

\* f"paragraph{i+1}" for the index i that enumerate gives, from 0.
ParagraphKey(i) == "paragraph" \o ToString(i + 1)

\* d[key] = value on a dictionary held as its (key, value) pairs in
\* insertion order: a key already present keeps its place and takes the
\* new value.
DictSet(d, key, value) ==
    IF \E j \in 1..Len(d) : d[j][1] = key
    THEN [j \in 1..Len(d) |-> IF d[j][1] = key THEN <<key, value>> ELSE d[j]]
    ELSE Append(d, <<key, value>>)

\* {f"paragraph{i+1}": para for i, para in enumerate(paragraphs)}, the
\* entries for the indices i .. len(paragraphs) - 1 added to d.
RECURSIVE DictFrom(_, _, _)
DictFrom(d, ps, i) ==
    IF i >= Len(ps) THEN d
    ELSE DictFrom(DictSet(d, ParagraphKey(i), ps[i + 1]), ps, i + 1)

MakeDict(ps) == DictFrom(<<>>, ps, 0)

\* The truth value in place of the test "is None".
IsFalsy(o) == ~Truthy(o)

\* paragraphs is None
IsNone(o) == o.kind = "none"

\* A conversion that opens and writes the output file before it looks at
\* the result of the extraction.
ConvertFinishWritesFirst ==
    /\ pc = "extracted"
    /\ IF IsNone(extract_result)
       THEN /\ conv_outcome' = "none"
            /\ output_file' = [written |-> TRUE, content |-> <<>>]
            /\ UNCHANGED paragraph_dict
       ELSE /\ paragraph_dict' = MakeDict(extract_result.val)
            /\ output_file' = [written |-> TRUE,
                               content |-> MakeDict(extract_result.val)]
            /\ conv_outcome' = "dict"
    /\ pc' = "done"
    /\ UNCHANGED <<ocr_mode, classVars, nativeVars, pageVars, ocrVars,
                   extract_result>>

\* None is passed on; a list becomes the dictionary, which is written to
\* the output file and returned.
ConvertFinish ==
    /\ pc = "extracted"
    /\ IF IsNone(extract_result)
       THEN /\ conv_outcome' = "none"
            /\ UNCHANGED <<paragraph_dict, output_file>>
       ELSE /\ paragraph_dict' = MakeDict(extract_result.val)
            /\ output_file' = [written |-> TRUE,
                               content |-> MakeDict(extract_result.val)]
            /\ conv_outcome' = "dict"
    /\ pc' = "done"
    /\ UNCHANGED <<ocr_mode, classVars, nativeVars, pageVars, ocrVars,
                   extract_result>>

Next ==
    \/ ConvertCall
    \/ SelectStrategy
    \/ NativeNextPage
    \/ NativeElement
    \/ NativeRaise
    \/ NativeExhausted
    \/ Handler
    \/ OcrOpen
    \/ OcrOpenRaise
    \/ OcrPageCount
    \/ OcrPageCountRaise
    \/ OcrBatch
    \/ OcrPage
    \/ PageLoad
    \/ PageLoadRaise
    \/ PageRender
    \/ PageRenderRaise
    \/ PageConvert
    \/ PageConvertRaise
    \/ PageResize
    \/ PageResizeRaise
    \/ PageText
    \/ PageTextRaise
    \/ PageFinally
    \/ OcrFinally
    \/ OcrCloseRaise
    \/ ReturnDirect
    \/ ReturnInsufficient
    \/ ConvertFinish

Spec == Init /\ [][Next]_vars

\* ------------------------------------------- the classifier on its own

\* A converter is constructed and one raw line is at hand.
InitClassifier ==
    /\ ocr_mode \in OcrModes
    /\ pc = "start"
    /\ paragraphs = <<>>
    /\ n_native_pages = 0
    /\ n_elems = 0
    /\ native_log = <<>>
    /\ native_status = "notrun"
    /\ ocr_caller = "nobody"
    /\ doc = "none"
    /\ doc_page_count = 0
    /\ total_pages = 0
    /\ batch_size = 0
    /\ start_page = 0
    /\ page_num = 0
    /\ ocr_paragraphs = <<>>
    /\ img = NoImage
    /\ pix = FALSE
    /\ ocr_ret = Unset
    /\ ocr_outcome = Unset
    /\ page_log = <<>>
    /\ ocr_log = <<>>
    /\ extract_result = Unset
    /\ paragraph_dict = <<>>
    /\ output_file = NoFile
    /\ conv_outcome = "running"
    /\ cls_pc = "raw"
    /\ cls_text \in RawLines
    /\ cls_cleaned = <<>>
    /\ cls_filtered = FALSE

\* cleaned_line = self.clean_text(line)
CleanLine ==
    /\ cls_pc = "raw"
    /\ cls_cleaned' = clean_text(cls_text)
    /\ cls_pc' = "cleaned"
    /\ UNCHANGED <<ocr_mode, pc, nativeVars, pageVars, ocrVars, outVars,
                   cls_text, cls_filtered>>

\* self.should_filter_line(cleaned_line)
ClassifyLine ==
    /\ cls_pc = "cleaned"
    /\ cls_filtered' = should_filter_line(cls_cleaned)
    /\ cls_pc' = "classified"
    /\ UNCHANGED <<ocr_mode, pc, nativeVars, pageVars, ocrVars, outVars,
                   cls_text, cls_cleaned>>

NextClassifier ==
    \/ CleanLine
    \/ ClassifyLine

ClassifierSpec == InitClassifier /\ [][NextClassifier]_vars

\* ---------------------------------------------- the line loop on its own

\* Mode 'always', a document of one page, and the page rendered: the
\* attempt is about to recognise its text.
InitAssembler ==
    /\ ocr_mode = "always"
    /\ pc = "page_text"
    /\ paragraphs = <<>>
    /\ n_native_pages = 0
    /\ n_elems = 0
    /\ native_log = <<>>
    /\ native_status = "notrun"
    /\ ocr_caller = "always"
    /\ doc = "open"
    /\ doc_page_count = 1
    /\ total_pages = 1
    /\ batch_size = FixedBatchSize
    /\ start_page = 1
    /\ page_num = 1
    /\ ocr_paragraphs = <<>>
    /\ img \in {Resized(size) : size \in ImageSizes}
    /\ pix = FALSE
    /\ ocr_ret = Unset
    /\ ocr_outcome = Unset
    /\ page_log = <<>>
    /\ ocr_log = <<>>
    /\ extract_result = Unset
    /\ paragraph_dict = <<>>
    /\ output_file = NoFile
    /\ conv_outcome = "running"
    /\ cls_pc = "idle"
    /\ cls_text = <<>>
    /\ cls_cleaned = <<>>
    /\ cls_filtered = FALSE

NextAssembler == PageTextAnyLines

AssemblerSpec == InitAssembler /\ [][NextAssembler]_vars

\* The OCR attempt of mode 'always' with the batch size of its loop drawn
\* from 1 .. MaxBatchSize instead of fixed.
InitBatch == Init /\ ocr_mode = "always"

NextBatch ==
    \/ ConvertCall
    \/ SelectStrategy
    \/ OcrOpen
    \/ OcrOpenRaise
    \/ OcrPageCountAnySize
    \/ OcrPageCountRaise
    \/ OcrBatch
    \/ OcrPage
    \/ PageLoad
    \/ PageLoadRaise
    \/ PageRender
    \/ PageRenderRaise
    \/ PageConvert
    \/ PageConvertRaise
    \/ PageResize
    \/ PageResizeRaise
    \/ PageText
    \/ PageTextRaise
    \/ PageFinally
    \/ OcrFinally
    \/ OcrCloseRaise
    \/ ReturnDirect
    \/ ConvertFinish

BatchSpec == InitBatch /\ [][NextBatch]_vars

\* ------------------------------------------------------------ observations

\* The statements of extract_text_with_ocr.
OcrPcs ==
    {"ocr_open", "ocr_count", "ocr_batch", "ocr_page", "page_load",
     "page_render", "page_convert", "page_resize", "page_text", "page_finally",
     "ocr_finally"}

\* OCR attempts made so far: the finished ones and the one under way.
OcrAttempts == Len(ocr_log) + (IF pc \in OcrPcs THEN 1 ELSE 0)

\* The characters of a list of paragraphs, counted paragraph by paragraph.
RECURSIVE TotalLength(_)
TotalLength(ps) ==
    IF ps = <<>> THEN 0 ELSE Len(Head(ps)) + TotalLength(Tail(ps))

\* extract_text_from_pdf is over: it returned, or an exception left it.
ExtractionOver == pc \in {"extracted", "done"}

\* ----------------------------------------------------------------- claims

\* C1: in mode 'auto', once native extraction has completed without raising,
\* an OCR attempt is made if and only if the native list is empty or its
\* paragraphs total fewer than 100 characters; no attempt is made while
\* native extraction is still running.
C1_AutoFallbackTrigger ==
    ocr_mode = "auto" =>
        /\ native_status = "running" => OcrAttempts = 0
        /\ native_status = "ok" =>
              (OcrAttempts >= 1 <=>
                  (paragraphs = <<>> \/ TotalLength(paragraphs) < 100))

\* A native result of 80 characters in all, and the OCR attempt it caused.
C1_Witness ==
    /\ ocr_mode = "auto"
    /\ native_status = "ok"
    /\ TotalLength(paragraphs) = 80
    /\ OcrAttempts >= 1

\* The last finished OCR attempt.
LastAttempt == ocr_log[Len(ocr_log)]

\* The OCR attempt made after insufficient native text has returned (no
\* exception left it), and extract_text_from_pdf has returned.
InsufficientAttemptReturned ==
    /\ ocr_mode = "auto"
    /\ ExtractionOver
    /\ ocr_log # <<>>
    /\ ocr_log[1].caller = "insufficient"
    /\ ocr_log[1].outcome.kind # "raised"

\* C2 as stated: after insufficient native text in mode 'auto', the result
\* is the OCR result whenever that is not null, an empty list included, and
\* the native list only when the OCR result is null.
C2_Original ==
    InsufficientAttemptReturned =>
        extract_result = IF ocr_log[1].outcome.kind = "list"
                         THEN ocr_log[1].outcome
                         ELSE ListOf(paragraphs)

\* C2, amended: after insufficient native text in mode 'auto', the result is
\* the OCR result whenever that is a non-empty list, and the unchanged
\* native list when the OCR result is null or an empty list.
C2_OcrReplacesNative ==
    InsufficientAttemptReturned =>
        extract_result =
            IF ocr_log[1].outcome.kind = "list" /\ ocr_log[1].outcome.val # <<>>
            THEN ocr_log[1].outcome
            ELSE ListOf(paragraphs)

\* A non-empty OCR result has replaced a non-empty native result.
C2_Witness ==
    /\ InsufficientAttemptReturned
    /\ paragraphs # <<>>
    /\ ocr_log[1].outcome.kind = "list"
    /\ ocr_log[1].outcome.val # <<>>
    /\ extract_result = ocr_log[1].outcome
    /\ extract_result # ListOf(paragraphs)

\* C3: in mode 'auto', when native extraction raises, exactly one OCR
\* attempt is made, from the except clause, and what extract_text_from_pdf
\* yields is what that attempt yields: its list, None, or the exception that
\* left it; the list native extraction had collected is not returned.
C3_NativeFailureFallsBackToOcr ==
    (ocr_mode = "auto" /\ native_status = "raised") =>
        /\ pc # "handler" => OcrAttempts = 1
        /\ \A i \in 1..Len(ocr_log) : ocr_log[i].caller = "handler"
        /\ ExtractionOver =>
              /\ Len(ocr_log) = 1
              /\ IF ocr_log[1].outcome.kind = "raised"
                 THEN conv_outcome = "raised" /\ extract_result = Unset
                 ELSE extract_result = ocr_log[1].outcome

\* Native extraction raised after collecting paragraphs, and the result is
\* the list of the OCR attempt, not the collected one.
C3_Witness ==
    /\ ocr_mode = "auto"
    /\ native_status = "raised"
    /\ paragraphs # <<>>
    /\ ExtractionOver
    /\ extract_result.kind = "list"
    /\ extract_result.val # <<>>
    /\ extract_result.val # paragraphs
    /\ extract_result = ocr_log[1].outcome

\* C4 as stated: in every mode and on every path, an OCR attempt that
\* yields None makes the whole conversion yield None.
C4_Original ==
    pc = "done" =>
        ((\E i \in 1..Len(ocr_log) : ocr_log[i].outcome.kind = "none")
            => conv_outcome = "none")

\* C4, amended: an OCR attempt that yields None makes the whole conversion
\* yield None when it was made in mode 'always' or from the except clause;
\* when it was made after insufficient native text, the conversion yields
\* the native list instead.
C4_OcrFailureIsTerminalWhenDirect ==
    \A i \in 1..Len(ocr_log) :
        (ExtractionOver /\ ocr_log[i].outcome.kind = "none") =>
            IF ocr_log[i].caller \in {"always", "handler"}
            THEN /\ extract_result = NoneValue
                 /\ pc = "done" => conv_outcome = "none"
            ELSE /\ extract_result = ListOf(paragraphs)
                 /\ pc = "done" => conv_outcome = "dict"

\* Native extraction raised, the OCR attempt of the except clause failed,
\* and the conversion yielded None.
C4_Witness ==
    /\ pc = "done"
    /\ native_status = "raised"
    /\ ocr_log # <<>>
    /\ LastAttempt.caller = "handler"
    /\ LastAttempt.outcome.kind = "none"
    /\ conv_outcome = "none"

\* C5 as stated: the conversion yields None only when native extraction
\* failed and OCR failed as well, or when the mode is 'never' and native
\* extraction failed; every other conversion yields a dictionary.
C5_Original ==
    pc = "done" =>
        /\ conv_outcome = "none" =>
              \/ /\ native_status = "raised"
                 /\ ocr_log # <<>>
                 /\ LastAttempt.outcome.kind = "none"
              \/ ocr_mode = "never" /\ native_status = "raised"
        /\ conv_outcome # "none" => conv_outcome = "dict"

\* C5, amended: the conversion yields None only when the mode is 'never'
\* and native extraction failed, or when the OCR attempt whose result is
\* returned directly yields None: the attempt of mode 'always', or the one
\* made from the except clause, which is entered after native extraction
\* failed or after an exception left the OCR attempt made for insufficient
\* text.  Every other conversion yields a dictionary, unless an exception
\* leaves a directly returned OCR attempt, which then leaves the conversion.
C5_NullOnlyWhenExtractionFailed ==
    pc = "done" =>
        /\ conv_outcome = "none" =>
              \/ ocr_mode = "never" /\ native_status = "raised" /\ ocr_log = <<>>
              \/ /\ ocr_log # <<>>
                 /\ LastAttempt.outcome.kind = "none"
                 /\ \/ ocr_mode = "always" /\ LastAttempt.caller = "always"
                    \/ /\ ocr_mode = "auto"
                       /\ LastAttempt.caller = "handler"
                       /\ \/ native_status = "raised"
                          \/ /\ Len(ocr_log) = 2
                             /\ ocr_log[1].caller = "insufficient"
                             /\ ocr_log[1].outcome.kind = "raised"
        /\ conv_outcome # "none" =>
              \/ conv_outcome = "dict"
              \/ /\ conv_outcome = "raised"
                 /\ ocr_log # <<>>
                 /\ LastAttempt.caller \in {"always", "handler"}
                 /\ LastAttempt.outcome.kind = "raised"

\* Mode 'always': native extraction never ran, the OCR attempt failed, and
\* the conversion yielded None.
C5_Witness ==
    /\ pc = "done"
    /\ conv_outcome = "none"
    /\ ocr_mode = "always"
    /\ native_status = "notrun"
    /\ LastAttempt.outcome.kind = "none"

\* C6: in mode 'never' no OCR attempt is made and no document is opened,
\* whatever native extraction returns or raises; if it raises the result is
\* None, otherwise the result is the native list.
C6_NeverModeMakesNoOcrAttempt ==
    ocr_mode = "never" =>
        /\ OcrAttempts = 0
        /\ doc = "none"
        /\ ExtractionOver =>
              extract_result = IF native_status = "raised"
                               THEN NoneValue
                               ELSE ListOf(paragraphs)

\* Mode 'never': a native result with too little text for mode 'auto' is
\* returned, with no OCR attempt.
C6_Witness ==
    /\ ocr_mode = "never"
    /\ pc = "done"
    /\ native_status = "ok"
    /\ paragraphs # <<>>
    /\ TotalLength(paragraphs) < 100
    /\ extract_result = ListOf(paragraphs)
    /\ OcrAttempts = 0

\* C7: in mode 'always' native extraction is never started, one OCR attempt
\* is made, and what extract_text_from_pdf yields is what that attempt
\* yields.
C7_AlwaysModeSkipsNative ==
    ocr_mode = "always" =>
        /\ native_status = "notrun"
        /\ paragraphs = <<>>
        /\ OcrAttempts <= 1
        /\ pc \notin {"start", "select"} => OcrAttempts = 1
        /\ ExtractionOver =>
              /\ Len(ocr_log) = 1
              /\ ocr_log[1].caller = "always"
              /\ IF ocr_log[1].outcome.kind = "raised"
                 THEN conv_outcome = "raised" /\ extract_result = Unset
                 ELSE extract_result = ocr_log[1].outcome

\* Mode 'always': the conversion ended with the paragraphs of its one OCR
\* attempt.
C7_Witness ==
    /\ ocr_mode = "always"
    /\ pc = "done"
    /\ conv_outcome = "dict"
    /\ Len(ocr_log) = 1
    /\ extract_result = ocr_log[1].outcome
    /\ extract_result.val # <<>>

\* C8 as stated: every paragraph of the output has at least
\* min_paragraph_length (20) characters, in every mode and on the native and
\* the OCR path.
C8_Original ==
    conv_outcome = "dict" =>
        \A k \in 1..Len(paragraph_dict) : Len(paragraph_dict[k][2]) >= 20

\* Decimal digits, written out.
DigitNames == <<"0", "1", "2", "3", "4", "5", "6", "7", "8", "9">>

\* The decimal numeral of a natural number.
RECURSIVE Decimal(_)
Decimal(n) ==
    IF n < 10 THEN DigitNames[n + 1]
    ELSE Decimal(n \div 10) \o DigitNames[(n % 10) + 1]

\* C9: for a result of N paragraphs the output mapping has exactly the
\* entries paragraph1 .. paragraphN, in this order, the i-th holding the
\* i-th paragraph of the result; the file holds the same entries.
C9_OutputKeysContiguous ==
    conv_outcome = "dict" =>
        /\ Len(paragraph_dict) = Len(extract_result.val)
        /\ \A i \in 1..Len(extract_result.val) :
              paragraph_dict[i] =
                  <<"paragraph" \o Decimal(i), extract_result.val[i]>>
        /\ output_file = [written |-> TRUE, content |-> paragraph_dict]

\* An OCR result of two or more paragraphs, with a page skipped and a line
\* rejected on the way, written under its keys.
C9_Witness ==
    /\ conv_outcome = "dict"
    /\ Len(paragraph_dict) >= 2
    /\ paragraph_dict[2][1] = "paragraph2"
    /\ ocr_log # <<>>
    /\ LastAttempt.outcome = extract_result
    /\ \E k \in 1..Len(page_log) : ~page_log[k].ok
    /\ \E k \in 1..Len(page_log) : page_log[k].ok /\ page_log[k].text = OcrPageA

\* The paragraph of OcrPageA, and the paragraph of OcrPageB.
ParagraphA ==
    <<"T","h","e"," ","u","n","i","t"," ","m","u","s","t"," ","b","e"," ","k",
      "e","p","t"," ","d","r","y"," ","a","t"," ","a","l","l"," ","t","i","m",
      "e","s",".">>

ParagraphB ==
    <<"C","h","e","c","k"," ","t","h","e"," ","s","e","a","l","s"," ","e","v",
      "e","r","y"," ","m","o","n","t","h",".">>

\* What the pages logged so far have contributed, in page order: nothing
\* for a skipped page, its paragraph for a recognised one.
RECURSIVE ExpectedFrom(_)
ExpectedFrom(log) ==
    IF log = <<>> THEN <<>>
    ELSE (IF ~Head(log).ok THEN <<>>
          ELSE IF Head(log).text = OcrPageA THEN <<ParagraphA>>
          ELSE <<ParagraphB>>) \o ExpectedFrom(Tail(log))

\* The statements of the page loops.
PageLoopPcs ==
    {"ocr_batch", "ocr_page", "page_load", "page_render", "page_convert",
     "page_resize", "page_text", "page_finally"}

\* C10: in an OCR attempt on a document of N pages a failure while loading,
\* rendering, converting or recognising a page only skips that page: the
\* pages are handled in the order 1, 2, .., each once, up to N; the list
\* always holds, in page order, the paragraphs of the recognised pages
\* handled so far; and the attempt reaches "return paragraphs" with that
\* list after page N, so that it never yields None.
C10_PageFailureIsIsolated ==
    /\ pc \in PageLoopPcs \cup {"ocr_finally"} =>
          /\ \A k \in 1..Len(page_log) : page_log[k].page = k
          /\ Len(page_log) <= total_pages
          /\ ocr_paragraphs = ExpectedFrom(page_log)
    /\ pc \in {"page_load", "page_render", "page_convert", "page_resize",
               "page_text"} =>
          Len(page_log) = page_num - 1
    /\ pc = "page_finally" => Len(page_log) = page_num
    /\ (pc = "ocr_finally" /\ ocr_ret.kind = "list") =>
          /\ Len(page_log) = total_pages
          /\ ocr_ret = ListOf(ExpectedFrom(page_log))
    /\ (pc \in {"ocr_finally", "ocr_return"} /\ page_log # <<>>) =>
          /\ Len(page_log) = total_pages
          /\ ocr_ret = ListOf(ExpectedFrom(page_log))
    /\ (pc = "ocr_return" /\ page_log # <<>>) =>
          ocr_outcome \in {ocr_ret, Raised}

\* Page 2 of 3 was skipped; pages 1 and 3 contributed their paragraphs and
\* the attempt returned both.
C10_Witness ==
    /\ pc = "ocr_return"
    /\ total_pages = 3
    /\ Len(page_log) = 3
    /\ page_log[1].ok /\ page_log[1].text = OcrPageA
    /\ ~page_log[2].ok
    /\ page_log[3].ok /\ page_log[3].text = OcrPageB
    /\ ocr_outcome = ListOf(<<ParagraphA, ParagraphB>>)

\* ---------------------------------------------------------------------- C11

\* C11: every document handle opened by an OCR attempt is closed by the time
\* the attempt ends, on every exit path and for every page count, zero
\* included.  An attempt has ended when its call has yielded; an attempt
\* whose doc.close() itself raised is left aside.  The statement fails for a
\* document of no pages: "if doc:" is then false and close() is never called.
C11_Original ==
    (pc = "ocr_return" /\ ocr_outcome.kind # "raised") => doc # "open"

\* ---------------------------------------------------------------------- C12

\* C12: the output file is written only after the extraction has finished
\* with a list, which may be empty, and then holds the dictionary made from
\* that list; while the extraction is under way, and when its result is
\* None, no output file has been opened or written.
C12_WriteOnlyAfterNonNullExtraction ==
    /\ output_file.written =>
          /\ pc = "done"
          /\ conv_outcome = "dict"
          /\ extract_result.kind = "list"
          /\ output_file.content = MakeDict(extract_result.val)
    /\ (pc = "done" /\ conv_outcome = "dict") => output_file.written
    /\ (ExtractionOver /\ extract_result.kind = "none") => output_file = NoFile

\* A conversion whose extraction ended with the empty list and wrote the
\* file, with no entries.
C12_Witness ==
    /\ pc = "done"
    /\ extract_result = ListOf(<<>>)
    /\ output_file = [written |-> TRUE, content |-> <<>>]

\* ---------------------------------------------------------------------- C13

\* A text container of the layout with the given raw text.
Container(t) == [container |-> TRUE, text |-> t]

\* C13: native extraction merges short adjacent containers.  For the
\* containers [A, B] with A = "Getting started", shorter than
\* min_paragraph_length and not ended by ".", "?" or "!", and B of 50
\* characters, the extraction returns the one paragraph A + " " + B.  The
\* code returns the two cleaned texts as two paragraphs.
C13_Original ==
    [][(/\ pc = "native"
        /\ native_log = <<Container(Block15), Container(Block50)>>
        /\ pc' = "extracted")
       => extract_result' =
             ListOf(<<clean_text(Block15) \o <<" ">> \o clean_text(Block50)>>)]_vars

\* ---------------------------------------------------------------------- C14

\* The lines of the pages of a log that were read, in page order.
RECURSIVE LinesOf(_)
LinesOf(log) ==
    IF log = <<>> THEN <<>>
    ELSE (IF Head(log).ok THEN SplitLines(Head(log).text) ELSE <<>>)
             \o LinesOf(Tail(log))

\* The paragraphs of a document whose lines go through one accumulator that
\* is flushed at a boundary line and at the end of the document only.
SharedAccumulator(log) ==
    LET r == LineLoop(LinesOf(log), <<>>, <<>>)
    IN  Flush(r.cur, r.ps)

\* C14: the OCR line accumulator is shared across the document and not reset
\* per page: the list an attempt returns is the one a single accumulator
\* gives over the lines of all its pages, so that content lines ending one
\* page and content lines starting the next are one paragraph.  The code
\* starts an empty accumulator for every page and flushes it at the page's
\* end.
C14_Original ==
    (pc = "ocr_return" /\ ocr_outcome.kind = "list")
        => ocr_outcome.val = SharedAccumulator(page_log)

\* ---------------------------------------------------------------------- C15

\* C15: for every page count N >= 0 and every batch size >= 1 the batch loop
\* handles exactly the pages 1 .. N, each once, in ascending order: the
\* page at hand is the one after those logged and lies within the batch at
\* hand, and the loop ends after page N.  The list returned is the one a
\* single pass over the pages gives, whatever the batch size.
C15_BatchLoopIsSinglePass ==
    /\ pc \in PageLoopPcs => batch_size \in 1..MaxBatchSize
    /\ pc \in PageLoopPcs \cup {"ocr_finally"} =>
          \A k \in 1..Len(page_log) : page_log[k].page = k
    /\ pc \in {"page_load", "page_render", "page_convert", "page_resize",
               "page_text"} =>
          /\ page_num = Len(page_log) + 1
          /\ page_num <= total_pages
          /\ start_page <= page_num
          /\ page_num < start_page + batch_size
          /\ (start_page - 1) % batch_size = 0
    /\ (pc = "ocr_finally" /\ ocr_ret.kind = "list") =>
          /\ Len(page_log) = total_pages
          /\ ocr_ret.val = ExpectedFrom(page_log)

\* Three pages handled in two batches of two, the second batch cut short by
\* the end of the document.
C15_Witness ==
    /\ pc = "ocr_return"
    /\ batch_size = 2
    /\ total_pages = 3
    /\ Len(page_log) = 3
    /\ \A k \in 1..3 : page_log[k].ok
    /\ ocr_outcome.kind = "list"

\* ---------------------------------------------------------------------- C16

\* A match of the pattern that starts at the beginning of the text and ends
\* at its end.
FullMatches(r, s) == (Len(s) + 1) \in Step(r, s, {1})

\* The line with every letter in lower case.
LowerCase(s) == [i \in 1..Len(s) |-> Fold(s[i])]

\* C16: should_filter_line calls a normalized line noise exactly when the
\* whole line matches at least one of the rules, whatever the case of its
\* letters: "Page 3", a bullet line, "Table 2: Summary" and "[bracketed]"
\* are noise, in upper case too; "The device operates at 12V." is content.
C16_NoiseIffWholeLineMatchesARule ==
    cls_pc = "classified" =>
        /\ cls_filtered =
              (\E i \in 1..Len(filter_patterns) :
                  FullMatches(filter_patterns[i], cls_cleaned))
        /\ cls_filtered = should_filter_line(LowerCase(cls_cleaned))
        /\ cls_cleaned \in {LinePage3, LineBullet, LineTable2, LineBracketed}
              => cls_filtered
        /\ cls_cleaned \in {<<"P","A","G","E"," ","3">>,
                            <<"t","a","b","l","e"," ","2",":"," ","S","u","m",
                              "m","a","r","y">>}
              => cls_filtered
        /\ cls_cleaned = LineDevice => ~cls_filtered

\* An upper-case page-number line, given with blanks around it, was
\* normalized and classified as noise.
C16_Witness ==
    /\ cls_pc = "classified"
    /\ cls_text = <<" ","P","A","G","E"," "," ","3"," ","\n">>
    /\ cls_cleaned = <<"P","A","G","E"," ","3">>
    /\ cls_filtered

\* ---------------------------------------------------------------------- C17

\* The normalized lines of a block that are neither empty nor noise.
RECURSIVE ContentLines(_)
ContentLines(lines) ==
    IF lines = <<>> THEN <<>>
    ELSE LET cleaned == clean_text(Head(lines))
         IN  (IF cleaned = <<>> \/ should_filter_line(cleaned)
              THEN <<>> ELSE <<cleaned>>) \o ContentLines(Tail(lines))

\* What a block adds when it is classified line by line: its content lines
\* joined by single spaces, or nothing when it has none.
BlockByLines(text) ==
    LET kept == ContentLines(SplitLines(text))
    IN  IF kept = <<>> THEN <<>> ELSE <<JoinSpace(kept)>>

\* C17: native extraction splits each text container into lines and
\* classifies each line: a noise line inside a block is dropped and the
\* content lines of the same block survive, joined by single spaces.  The
\* code normalizes the whole block into one line and classifies that: a
\* block of a table caption and a sentence is dropped entirely.
C17_Original ==
    [][(/\ pc = "native"
        /\ Len(native_log') = Len(native_log) + 1
        /\ native_log'[Len(native_log')].container)
       => paragraphs' =
             paragraphs \o BlockByLines(native_log'[Len(native_log')].text)]_vars

\* ---------------------------------------------------------------------- C18

\* Line k of the lines is a content line: not empty once normalized, and
\* not noise.
IsContentLine(lines, k) ==
    LET cleaned == clean_text(lines[k])
    IN  cleaned # <<>> /\ ~should_filter_line(cleaned)

\* The maximal runs of consecutive content lines, as pairs first, last.
MaximalRuns(lines) ==
    {r \in (1..Len(lines)) \X (1..Len(lines)) :
        /\ r[1] <= r[2]
        /\ \A k \in r[1]..r[2] : IsContentLine(lines, k)
        /\ r[1] = 1 \/ ~IsContentLine(lines, r[1] - 1)
        /\ r[2] = Len(lines) \/ ~IsContentLine(lines, r[2] + 1)}

\* The normalized lines of a run joined by single spaces.
RunText(lines, r) ==
    JoinSpace([k \in 1..(r[2] - r[1] + 1) |-> clean_text(lines[r[1] + k - 1])])

\* The runs long enough to be paragraphs.
AcceptedRuns(lines) ==
    {r \in MaximalRuns(lines) : Len(RunText(lines, r)) >= min_paragraph_length}

\* C18: for the lines of a page text, each content, noise or empty: the
\* paragraphs emitted are, in the order of the lines, the single-space joins
\* of the maximal runs of consecutive content lines whose joined length is
\* at least min_paragraph_length, one paragraph per such run; a shorter run
\* gives nothing and is not carried into the next run; no paragraph holds
\* the text of a noise line.
C18_ParagraphsAreLongMaximalRuns ==
    (pc = "page_finally" /\ page_log # <<>> /\ page_log[1].ok) =>
        LET lines == SplitLines(page_log[1].text)
            runs == AcceptedRuns(lines)
        IN  /\ Len(ocr_paragraphs) = Cardinality(runs)
            /\ \E f \in [1..Len(ocr_paragraphs) -> runs] :
                  /\ \A i, j \in 1..Len(ocr_paragraphs) :
                        i < j => f[i][2] < f[j][1]
                  /\ \A i \in 1..Len(ocr_paragraphs) :
                        ocr_paragraphs[i] = RunText(lines, f[i])

\* A short run, a noise line, then a run of two lines: the short run gave
\* nothing and was not carried over, the run of two lines is the paragraph.
C18_Witness ==
    /\ pc = "page_finally"
    /\ page_log[1].text = JoinNewline(<<LineNote, LinePage3, LineDry, LineSeals>>)
    /\ ocr_paragraphs =
          <<clean_text(LineDry) \o <<" ">> \o LineSeals>>

\* ---------------------------------------------------------------------- C19

\* The statements between the start of a page's try block and its finally
\* clause.
PageBodyPcs ==
    {"page_load", "page_render", "page_convert", "page_resize", "page_text",
     "page_finally"}

\* C19: the image and the pixmap of a page are released before the next
\* page begins, whichever way the page ended: nothing is held at the head
\* of the page loop, at the start of a page, or outside the page loop; the
\* pixmap is held only up to the conversion, the image only from the
\* conversion to the page's finally clause, and never both.
C19_PageResourcesReleased ==
    /\ pc \notin PageBodyPcs => (img = NoImage /\ ~pix)
    /\ pc \in {"page_load", "page_render"} => (img = NoImage /\ ~pix)
    /\ pc = "page_convert" => (img = NoImage /\ pix)
    /\ pc \in {"page_resize", "page_text"} => (img # NoImage /\ ~pix)
    /\ pc = "page_finally" => ~pix
    /\ ~(pix /\ img # NoImage)

\* The loop is at its head before page 3: page 1 was recognised, page 2 was
\* skipped, and nothing of either is held.
C19_Witness ==
    /\ pc = "ocr_page"
    /\ page_num = 3
    /\ Len(page_log) = 2
    /\ page_log[1].ok
    /\ ~page_log[2].ok
    /\ img = NoImage
    /\ ~pix

\* ---------------------------------------------------------------------- C20

\* C20: within one conversion at most one OCR attempt is made, in every
\* mode.  The code makes a second one in mode 'auto': the attempt made after
\* insufficient native text runs inside the try block, so that an exception
\* leaving it, raised by doc.close(), reaches the except clause, which
\* calls extract_text_with_ocr again.
C20_Original == OcrAttempts <= 1

====
